---- MODULE Spec2Model ----
(***************************************************************************)
(* The nobledao title registry: the instruction processor                  *)
(* (program/src/processor.rs) over a ledger of accounts, with the record   *)
(* layouts of program/src/state.rs and the address derivations of          *)
(* program/src/lib.rs.                                                     *)
(*                                                                         *)
(* Abstractions.                                                           *)
(*  - A 32-byte address is a sequence of naturals.  The hash inside        *)
(*    Pubkey::find_program_address is a free constructor: derived          *)
(*    addresses are distinct from each other, from wallets and from the    *)
(*    all-zero address (collision resistance).                             *)
(*  - An account's buffer is held in decoded form (a House record, a Title *)
(*    record, an all-zero buffer, or a Title buffer whose last write ran   *)
(*    out of space).  Sizes are computed from the Borsh layout.            *)
(*  - The sources disagree on the text fields: processor.rs and the CLI    *)
(*    pass [u8; 128], state.rs and instruction.rs declare String.  Both    *)
(*    layouts are modelled; `layout` is chosen in Init and never changes.  *)
(*  - The host (runtime and system program) is outside the repository.     *)
(*    Under Next the buffers keep what the processor wrote into them, also *)
(*    when the instruction then fails.  The host runs one transaction at a *)
(*    time: `tx` is the transaction in flight, from its submission through *)
(*    the processor's run to the error or success returned to the caller.  *)
(*    Under NextAtomic a failed instruction leaves the ledger as it was.   *)
(***************************************************************************)
EXTENDS Integers, Sequences, FiniteSets, TLC

VARIABLES ledger, layout, room, tx

vars == <<ledger, layout, room, tx>>

-----------------------------------------------------------------------------
(* Bounds of the model *)

\* accounts (houses and titles) a run of Spec may allocate
MaxAccounts == 2
\* vassal entries a run of Spec may append to one liege
MaxFan == 2
\* vassal entries a run of SpecFanout may append to the root title
MaxRootFan == 65

-----------------------------------------------------------------------------
(* Addresses *)

Zero == <<0>>
SystemProgramId == Zero
ProgramId == <<9>>
Wallet1 == <<1>>
Wallet2 == <<2>>
Wallets == {Wallet1, Wallet2}
\* an address at which no account of the registry exists
Foreign == <<3>>

find_program_address(seeds) == [address |-> <<7>> \o seeds, bump |-> 255]

get_house_address_and_bump_seed_internal(wallet_address) ==
    find_program_address(<<100>> \o wallet_address)

get_title_address_and_bump_seed_internal(liege_address, vassal_index) ==
    find_program_address(<<200, vassal_index>> \o liege_address)

get_house_address(wallet_address) ==
    get_house_address_and_bump_seed_internal(wallet_address).address

get_title_address(liege_address, vassal_index) ==
    get_title_address_and_bump_seed_internal(liege_address, vassal_index).address

RootAddress == get_title_address(Zero, 0)

-----------------------------------------------------------------------------
(* Record layout (state.rs) *)

MAX_VASSALS == 64
TEXT_WIDTH == 128
ADDRESS_WIDTH == 32
HouseData_CURRENT_VERSION == 1
TitleData_CURRENT_VERSION == 1
INACTIVE_STATE == 1
HouseData_SIZE == 2 + 2 + 128 + 128 + 4 + 4
TitleData_SIZE ==
    1 + 1 + 1 + 1 + 8 + 8 + 128 + 128 + 32 + 32 + 32 + 1 + 4 + (32 * MAX_VASSALS)

Layouts == {"fixed", "string"}

\* bytes one text field takes: [u8; 128] as is, String as u32 length + bytes
TextSize(lay, t) == IF lay = "fixed" THEN TEXT_WIDTH ELSE 4 + Len(t)

HouseSerializedLen(lay, h) ==
    2 + 2 + TextSize(lay, h.coat_of_arms) + TextSize(lay, h.display_name) + 4 + 4

\* bytes of a Title up to and including the u32 length of vassal_addresses
TitleHeadLen(lay, td) ==
    1 + 1 + 1 + 1 + 8 + 8 + TextSize(lay, td.coat_of_arms)
      + TextSize(lay, td.display_name) + 32 + 32 + 32 + 1 + 4

TitleSerializedLen(lay, td) ==
    TitleHeadLen(lay, td) + ADDRESS_WIDTH * Len(td.vassal_addresses)

-----------------------------------------------------------------------------
(* Texts *)

Fill(n, b) == [i \in 1..n |-> b]

EmptyText == <<>>
OneText == <<65>>
FullText == Fill(TEXT_WIDTH, 65)

\* Under the fixed layout the CLI copies the text into a zeroed [u8; 128]
\* (cli/src/main.rs); such an array is written here without its trailing zeros.

-----------------------------------------------------------------------------
(* Byte-level reading of a House buffer as a Title (Borsh, String layout). *)
(* A u64 is written as its eight little-endian bytes.                      *)

RECURSIVE LEBytes(_, _)
LEBytes(n, width) ==
    IF width = 0 THEN <<>> ELSE <<n % 256>> \o LEBytes(n \div 256, width - 1)

RECURSIVE LEValue(_, _, _)
\* little-endian value of the `width` bytes of buf after the first `off`
LEValue(buf, off, width) ==
    IF width = 0 THEN 0 ELSE buf[off + 1] + 256 * LEValue(buf, off + 1, width - 1)

\* a u32 length of 2^24 or more exceeds every account buffer
U32Huge(buf, off) == buf[off + 4] # 0

HouseBytes(h) ==
    LEBytes(h.version, 2) \o LEBytes(h.governance_token_supply, 2)
      \o LEBytes(Len(h.coat_of_arms), 4) \o h.coat_of_arms
      \o LEBytes(Len(h.display_name), 4) \o h.display_name
      \o LEBytes(h.prestige, 4) \o LEBytes(h.virtue, 4)

\* the address a 32-byte field holds; text bytes never spell a derived address
AddressOfBytes(b) == IF \A i \in 1..Len(b) : b[i] = 0 THEN Zero ELSE <<4>> \o b

DeserializeError == [ok |-> FALSE]

\* TitleData::deserialize over raw bytes, String layout; trailing bytes are left unread
TitleFromBytes(buf) ==
    LET n == Len(buf) IN
    IF n < 24 \/ U32Huge(buf, 20) THEN DeserializeError ELSE
    LET la == LEValue(buf, 20, 4) IN
    IF 24 + la + 4 > n \/ U32Huge(buf, 24 + la) THEN DeserializeError ELSE
    LET lb == LEValue(buf, 24 + la, 4)
        p  == 28 + la + lb
    IN
    IF p + 101 > n \/ U32Huge(buf, p + 97) THEN DeserializeError ELSE
    LET cnt == LEValue(buf, p + 97, 4) IN
    IF p + 101 + ADDRESS_WIDTH * cnt > n THEN DeserializeError ELSE
    [ok |-> TRUE,
     td |-> [type |-> "Title",
             version |-> buf[1],
             lifecycle_state |-> buf[2],
             rank |-> buf[3],
             kind |-> buf[4],
             required_stake_lamports |-> SubSeq(buf, 5, 12),
             sale_price_lamports |-> SubSeq(buf, 13, 20),
             coat_of_arms |-> SubSeq(buf, 25, 24 + la),
             display_name |-> SubSeq(buf, 29 + la, 28 + la + lb),
             holder_house_address |-> AddressOfBytes(SubSeq(buf, p + 1, p + 32)),
             stake_address |-> AddressOfBytes(SubSeq(buf, p + 33, p + 64)),
             liege_address |-> AddressOfBytes(SubSeq(buf, p + 65, p + 96)),
             liege_vassal_index |-> buf[p + 97],
             vassal_addresses |->
                 [i \in 1..cnt |->
                     AddressOfBytes(SubSeq(buf, p + 102 + ADDRESS_WIDTH * (i - 1),
                                           p + 101 + ADDRESS_WIDTH * i))]]]

-----------------------------------------------------------------------------
(* Accounts *)

ZeroedData == [type |-> "Zeroed"]

IsTitle(L, a) == a \in DOMAIN L /\ L[a].data.type = "Title"
IsHouse(L, a) == a \in DOMAIN L /\ L[a].data.type = "House"
TitleAddrs(L) == {a \in DOMAIN L : L[a].data.type = "Title"}
\* accounts allocated with the size of a Title / of a House
TitleAccounts(L) == {a \in DOMAIN L : L[a].size = TitleData_SIZE}
HouseAccounts(L) == {a \in DOMAIN L : L[a].size = HouseData_SIZE}

Put(L, a, acct) == [x \in DOMAIN L \cup {a} |-> IF x = a THEN acct ELSE L[x]]

\* the bytes of the account at `a`, as far as the String-layout reader looks
BufferOf(acct) ==
    IF acct.data.type = "House"
    THEN LET b == HouseBytes(acct.data) IN b \o Fill(acct.size - Len(b), 0)
    ELSE Fill(acct.size, 0)

TitleData_deserialize_Lenient(lay, L, a) ==
    IF a \notin DOMAIN L THEN TitleFromBytes(Fill(129, 0))
    ELSE LET d == L[a].data IN
         CASE d.type = "Title" -> [ok |-> TRUE, td |-> d]
           [] d.type = "Truncated" -> DeserializeError
           [] OTHER ->
                IF lay = "fixed"
                THEN IF L[a].size < 1 + 1 + 1 + 1 + 8 + 8 + TEXT_WIDTH + TEXT_WIDTH
                                      + 32 + 32 + 32 + 1 + 4
                     THEN DeserializeError
                     ELSE TitleFromBytes(Fill(129, 0))
                ELSE TitleFromBytes(BufferOf(L[a]))

\* processor.rs 215-220: TitleData::deserialize(&mut &data[..]) of the liege account
TitleData_deserialize(lay, L, a) ==
    IF a \notin DOMAIN L THEN DeserializeError
    ELSE LET d == L[a].data IN
         CASE d.type = "Title" -> [ok |-> TRUE, td |-> d]
           [] d.type = "Truncated" -> DeserializeError
           [] OTHER ->
                IF lay = "fixed"
                THEN \* 377 bytes are read before the vassal list ends
                     IF L[a].size < 1 + 1 + 1 + 1 + 8 + 8 + TEXT_WIDTH + TEXT_WIDTH
                                      + 32 + 32 + 32 + 1 + 4
                     THEN DeserializeError
                     ELSE TitleFromBytes(Fill(129, 0))
                ELSE TitleFromBytes(BufferOf(L[a]))

-----------------------------------------------------------------------------
(* Host: the system program's create_account, reached through invoke_signed *)

\* SystemError::AccountAlreadyInUse and ResultWithNegativeLamports reach the
\* caller as ProgramError::Custom(0) and Custom(1)
AccountAlreadyInUse == "Custom(0)"
AllocationRefused == "Custom(1)"
\* the system program is not among the accounts handed to invoke_signed
MissingAccount == "MissingAccount"

create_account_Overwrite(L, ins, to, space) ==
    IF ins.system_acct # SystemProgramId
    THEN [ok |-> FALSE, err |-> MissingAccount, ledger |-> L]
    ELSE IF ~ins.host_ok
    THEN [ok |-> FALSE, err |-> AllocationRefused, ledger |-> L]
    ELSE [ok |-> TRUE, err |-> "none",
          ledger |-> Put(L, to, [owner |-> ProgramId, size |-> space,
                                 data |-> ZeroedData])]

\* ins.host_ok: the funder can pay the rent and the host accepts the call
create_account(L, ins, to, space) ==
    IF to \in DOMAIN L THEN [ok |-> FALSE, err |-> AccountAlreadyInUse, ledger |-> L]
    ELSE IF ins.system_acct # SystemProgramId
    THEN [ok |-> FALSE, err |-> MissingAccount, ledger |-> L]
    ELSE IF ~ins.host_ok
    THEN [ok |-> FALSE, err |-> AllocationRefused, ledger |-> L]
    ELSE [ok |-> TRUE, err |-> "none",
          ledger |-> Put(L, to, [owner |-> ProgramId, size |-> space,
                                 data |-> ZeroedData])]

-----------------------------------------------------------------------------
(* Processor (processor.rs) *)

\* TitleError::IncorrectAuthority, the first variant, converts to Custom(0)
IncorrectAuthority == "Custom(0)"

Result(L, check, err) == [ledger |-> L, check |-> check, err |-> err]

check_authority_Skipped(authority_key, expected_authority) == "ok"

check_authority(authority_key, expected_authority) ==
    IF expected_authority # authority_key THEN IncorrectAuthority ELSE "ok"

check_system_program(program_id) ==
    IF program_id # SystemProgramId THEN "IncorrectProgramId" ELSE "ok"

HouseAddressMatches_Any(wallet, key) == TRUE

\* lines 86-91 and 186-191: the House account is the one derived from the wallet
HouseAddressMatches(wallet, key) ==
    get_house_address_and_bump_seed_internal(wallet).address = key

TitleAddressMatches_Any(liege_key, vassal_index, key) == TRUE

\* lines 197-205: the new Title account is the one derived from the liege account
TitleAddressMatches(liege_key, vassal_index, key) ==
    get_title_address_and_bump_seed_internal(liege_key, vassal_index).address = key

VassalIndexMatches_Any(td, liege_vassal_index) == TRUE

\* lines 224-231
VassalIndexMatches(td, liege_vassal_index) ==
    Len(td.vassal_addresses) = liege_vassal_index

\* lines 232-235
RankBelow(td, rank) == ~(td.rank >= rank)

WalletSigned_Any(ins) == TRUE

\* lines 76 and 155: owner_and_funder_wallet_info.is_signer
WalletSigned(ins) == ins.is_signer

EmptyLiege_FromAccount(ins) == ins.liege_acct = Zero

\* line 152: empty_liege, decided from the liege_address argument
EmptyLiege(ins) == ins.liege_address = Zero

RankInRange_MaxRank(rank) == ~(rank < 1 \/ rank > 6)

\* line 168
RankInRange(rank) == ~(rank < 1 \/ rank > 8)

\* line 172
KindInRange(kind) == ~(kind < 1 \/ kind > 2)

house_data_struct_NoSupply(ins) ==
    [type |-> "House",
     version |-> HouseData_CURRENT_VERSION,
     governance_token_supply |-> 0,
     coat_of_arms |-> ins.coat_of_arms,
     display_name |-> ins.display_name,
     prestige |-> 0,
     virtue |-> 0]

\* lines 117-124
house_data_struct(ins) ==
    [type |-> "House",
     version |-> HouseData_CURRENT_VERSION,
     governance_token_supply |-> 1,
     coat_of_arms |-> ins.coat_of_arms,
     display_name |-> ins.display_name,
     prestige |-> 0,
     virtue |-> 0]

title_data_struct_Active(ins) ==
    [type |-> "Title",
     version |-> TitleData_CURRENT_VERSION,
     lifecycle_state |-> 2,
     rank |-> ins.rank,
     kind |-> ins.kind,
     required_stake_lamports |-> ins.required_stake_lamports,
     sale_price_lamports |-> ins.required_stake_lamports,
     coat_of_arms |-> ins.coat_of_arms,
     display_name |-> ins.display_name,
     holder_house_address |-> ins.house_acct,
     stake_address |-> Zero,
     liege_address |-> ins.liege_acct,
     liege_vassal_index |-> ins.liege_vassal_index,
     vassal_addresses |-> <<>>]

title_data_struct_NoSalePrice(ins) ==
    [type |-> "Title",
     version |-> TitleData_CURRENT_VERSION,
     lifecycle_state |-> INACTIVE_STATE,
     rank |-> ins.rank,
     kind |-> ins.kind,
     required_stake_lamports |-> ins.required_stake_lamports,
     sale_price_lamports |-> LEBytes(0, 8),
     coat_of_arms |-> ins.coat_of_arms,
     display_name |-> ins.display_name,
     holder_house_address |-> ins.house_acct,
     stake_address |-> Zero,
     liege_address |-> ins.liege_acct,
     liege_vassal_index |-> ins.liege_vassal_index,
     vassal_addresses |-> <<>>]

\* lines 268-282
title_data_struct(ins) ==
    [type |-> "Title",
     version |-> TitleData_CURRENT_VERSION,
     lifecycle_state |-> INACTIVE_STATE,
     rank |-> ins.rank,
     kind |-> ins.kind,
     required_stake_lamports |-> ins.required_stake_lamports,
     sale_price_lamports |-> ins.required_stake_lamports,
     coat_of_arms |-> ins.coat_of_arms,
     display_name |-> ins.display_name,
     holder_house_address |-> ins.house_acct,
     stake_address |-> Zero,
     liege_address |-> ins.liege_acct,
     liege_vassal_index |-> ins.liege_vassal_index,
     vassal_addresses |-> <<>>]

process_create_house_account(lay, L, ins) ==
    IF ~WalletSigned(ins) THEN Result(L, "signer", "MissingRequiredSignature")
    ELSE IF ~ins.wallet_writable \/ ~ins.house_writable
    THEN Result(L, "writable", "InvalidArgument")
    ELSE IF check_system_program(ins.wallet_owner) # "ok"
    THEN Result(L, "system_program", check_system_program(ins.wallet_owner))
    ELSE IF ~HouseAddressMatches(ins.wallet, ins.house_acct)
    THEN Result(L, "house_seeds", "InvalidSeeds")
    ELSE
    LET created == create_account(L, ins, ins.house_acct, HouseData_SIZE) IN
    IF ~created.ok THEN Result(L, "allocate", created.err)
    ELSE IF HouseSerializedLen(lay, house_data_struct(ins)) > HouseData_SIZE
    THEN \* dst[..data.len()] is out of range: the program panics
         Result(created.ledger, "panic", "ProgramFailedToComplete")
    ELSE Result([created.ledger EXCEPT ![ins.house_acct].data = house_data_struct(ins)],
                "ok", "none")

PushVassal_Front(td, title_address) ==
    [td EXCEPT !.vassal_addresses = <<title_address>> \o @]

\* line 236: td.vassal_addresses.push(title_address)
PushVassal(td, title_address) ==
    [td EXCEPT !.vassal_addresses = Append(@, title_address)]

UpdateLiege_WriteFirst(lay, L, ins, title_address) ==
    LET liege_title_data == TitleData_deserialize(lay, L, ins.liege_acct) IN
    IF ~liege_title_data.ok THEN Result(L, "deserialize", "InvalidAccountData")
    ELSE
    LET td == liege_title_data.td
        pushed == PushVassal(td, title_address)
    IN
    IF check_authority(ins.house_acct, td.holder_house_address) # "ok"
    THEN Result(L, "authority", check_authority(ins.house_acct, td.holder_house_address))
    ELSE IF ~VassalIndexMatches(td, ins.liege_vassal_index)
    THEN Result(L, "vassal_index", "InvalidArgument")
    ELSE IF ~RankBelow(td, ins.rank)
    THEN Result([L EXCEPT ![ins.liege_acct].data = pushed], "rank_order", "InvalidArgument")
    ELSE IF TitleSerializedLen(lay, pushed) > L[ins.liege_acct].size
    THEN \* the writer runs out of buffer after the head and the addresses that fit
         Result([L EXCEPT ![ins.liege_acct].data =
                    [type |-> "Truncated", count |-> Len(pushed.vassal_addresses)]],
                "serialize", "BorshIoError")
    ELSE Result([L EXCEPT ![ins.liege_acct].data = pushed], "ok", "none")

\* lines 214-244: the liege is read, checked and rewritten with the new vassal
UpdateLiege(lay, L, ins, title_address) ==
    LET liege_title_data == TitleData_deserialize(lay, L, ins.liege_acct) IN
    IF ~liege_title_data.ok THEN Result(L, "deserialize", "InvalidAccountData")
    ELSE
    LET td == liege_title_data.td
        pushed == PushVassal(td, title_address)
    IN
    IF check_authority(ins.house_acct, td.holder_house_address) # "ok"
    THEN Result(L, "authority", check_authority(ins.house_acct, td.holder_house_address))
    ELSE IF ~VassalIndexMatches(td, ins.liege_vassal_index)
    THEN Result(L, "vassal_index", "InvalidArgument")
    ELSE IF ~RankBelow(td, ins.rank)
    THEN Result(L, "rank_order", "InvalidArgument")
    ELSE IF TitleSerializedLen(lay, pushed) > L[ins.liege_acct].size
    THEN \* the writer runs out of buffer after the head and the addresses that fit
         Result([L EXCEPT ![ins.liege_acct].data =
                    [type |-> "Truncated", count |-> Len(pushed.vassal_addresses)]],
                "serialize", "BorshIoError")
    ELSE Result([L EXCEPT ![ins.liege_acct].data = pushed], "ok", "none")

process_create_title_account(lay, L, ins) ==
    LET empty_liege == EmptyLiege(ins)
        title_address ==
            get_title_address_and_bump_seed_internal(ins.liege_acct,
                                                     ins.liege_vassal_index).address
    IN
    IF ~WalletSigned(ins) THEN Result(L, "signer", "MissingRequiredSignature")
    ELSE IF ~ins.wallet_writable \/ ~ins.new_title_writable
            \/ (~ins.liege_writable /\ ~empty_liege)
    THEN Result(L, "writable", "InvalidArgument")
    ELSE IF check_system_program(ins.wallet_owner) # "ok"
    THEN Result(L, "system_program", check_system_program(ins.wallet_owner))
    ELSE IF ~RankInRange(ins.rank) THEN Result(L, "rank", "InvalidArgument")
    ELSE IF ~KindInRange(ins.kind) THEN Result(L, "kind", "InvalidArgument")
    ELSE IF ins.rank = 1 /\ ~empty_liege THEN Result(L, "rank_liege", "InvalidArgument")
    ELSE IF ins.rank > 1 /\ empty_liege THEN Result(L, "rank_liege", "InvalidArgument")
    ELSE IF ~HouseAddressMatches(ins.wallet, ins.house_acct)
    THEN Result(L, "house_seeds", "InvalidSeeds")
    ELSE IF ~TitleAddressMatches(ins.liege_acct, ins.liege_vassal_index, ins.new_title_acct)
    THEN Result(L, "title_seeds", "InvalidSeeds")
    ELSE
    LET liege == IF ins.rank > 1 THEN UpdateLiege(lay, L, ins, title_address)
                 ELSE Result(L, "ok", "none")
    IN
    IF liege.check # "ok" THEN liege
    ELSE
    LET created == create_account(liege.ledger, ins, ins.new_title_acct, TitleData_SIZE) IN
    IF ~created.ok THEN Result(liege.ledger, "allocate", created.err)
    ELSE IF TitleSerializedLen(lay, title_data_struct(ins)) > TitleData_SIZE
    THEN Result([created.ledger EXCEPT ![ins.new_title_acct].data =
                    [type |-> "Truncated", count |-> 0]],
                "serialize", "BorshIoError")
    ELSE Result([created.ledger EXCEPT ![ins.new_title_acct].data = title_data_struct(ins)],
                "ok", "none")

-----------------------------------------------------------------------------
(* Requests: the instructions and account lists callers submit *)

HouseTexts == {<<EmptyText, OneText>>, <<FullText, FullText>>}
TitleTexts == <<EmptyText, OneText>>
Ranks == {1, 2, 8}
ValidKind == 2
Stake == LEBytes(1000, 8)

HouseOf(w) == get_house_address(w)
OtherWallet(w) == IF w = Wallet1 THEN Wallet2 ELSE Wallet1

\* the request the CLI builds (instruction.rs create_house, main.rs create_house)
HouseRequest(w, texts) ==
    [op |-> "CreateHouse", wallet |-> w, is_signer |-> TRUE, wallet_writable |-> TRUE,
     wallet_owner |-> SystemProgramId, house_acct |-> HouseOf(w),
     house_writable |-> TRUE, system_acct |-> SystemProgramId,
     coat_of_arms |-> texts[1], display_name |-> texts[2], host_ok |-> TRUE]

HouseVariants ==
    {"none", "no_signer", "wallet_ro", "house_ro", "wallet_owner", "system_acct",
     "other_house", "host_fail", "all_faults"}

HouseDeviate(r, v) ==
    CASE v = "no_signer" -> [r EXCEPT !.is_signer = FALSE]
      [] v = "wallet_ro" -> [r EXCEPT !.wallet_writable = FALSE]
      [] v = "house_ro" -> [r EXCEPT !.house_writable = FALSE]
      [] v = "wallet_owner" -> [r EXCEPT !.wallet_owner = ProgramId]
      [] v = "system_acct" -> [r EXCEPT !.system_acct = Foreign]
      [] v = "other_house" -> [r EXCEPT !.house_acct = HouseOf(OtherWallet(r.wallet))]
      [] v = "host_fail" -> [r EXCEPT !.host_ok = FALSE]
      [] v = "all_faults" ->
            [r EXCEPT !.is_signer = FALSE, !.wallet_writable = FALSE,
                      !.house_writable = FALSE, !.wallet_owner = ProgramId,
                      !.system_acct = Foreign,
                      !.house_acct = HouseOf(OtherWallet(r.wallet))]
      [] OTHER -> r

HouseRequests ==
    {HouseDeviate(HouseRequest(w, t), v) : w \in Wallets, t \in HouseTexts,
                                           v \in HouseVariants}

\* the request the CLI builds (instruction.rs create_title, main.rs create_title)
TitleRequest(w, liege, rank, idx) ==
    [op |-> "CreateTitle", wallet |-> w, is_signer |-> TRUE, wallet_writable |-> TRUE,
     wallet_owner |-> SystemProgramId, house_acct |-> HouseOf(w),
     new_title_acct |-> get_title_address(liege, idx), new_title_writable |-> TRUE,
     liege_acct |-> liege, liege_writable |-> TRUE, system_acct |-> SystemProgramId,
     rank |-> rank, kind |-> ValidKind, required_stake_lamports |-> Stake,
     coat_of_arms |-> TitleTexts[1], display_name |-> TitleTexts[2],
     liege_address |-> liege, liege_vassal_index |-> idx, host_ok |-> TRUE]

\* deviations that reach the checks which read the ledger
CoreVariants == {"none", "host_fail"}
\* deviations caught by the checks on the request alone
ShallowVariants ==
    {"no_signer", "wallet_ro", "title_ro", "liege_ro", "wallet_owner", "system_acct",
     "rank_lo", "rank_hi", "kind_lo", "kind_hi", "other_house", "arg_zero",
     "arg_root", "wrong_title", "arg_zero_title", "all_faults"}

TitleDeviate(r, v) ==
    CASE v = "no_signer" -> [r EXCEPT !.is_signer = FALSE]
      [] v = "wallet_ro" -> [r EXCEPT !.wallet_writable = FALSE]
      [] v = "title_ro" -> [r EXCEPT !.new_title_writable = FALSE]
      [] v = "liege_ro" -> [r EXCEPT !.liege_writable = FALSE]
      [] v = "wallet_owner" -> [r EXCEPT !.wallet_owner = ProgramId]
      [] v = "system_acct" -> [r EXCEPT !.system_acct = Foreign]
      [] v = "rank_lo" -> [r EXCEPT !.rank = 0]
      [] v = "rank_hi" -> [r EXCEPT !.rank = 9]
      [] v = "kind_lo" -> [r EXCEPT !.kind = 0]
      [] v = "kind_hi" -> [r EXCEPT !.kind = 3]
      [] v = "other_house" -> [r EXCEPT !.house_acct = HouseOf(OtherWallet(r.wallet))]
      [] v = "arg_zero" -> [r EXCEPT !.liege_address = Zero]
      [] v = "arg_root" -> [r EXCEPT !.liege_address = RootAddress]
      [] v = "arg_zero_title" ->
            [r EXCEPT !.liege_address = Zero,
                      !.new_title_acct = get_title_address(Zero, r.liege_vassal_index)]
      [] v = "wrong_title" ->
            [r EXCEPT !.new_title_acct =
                          get_title_address(r.liege_acct, r.liege_vassal_index + 1)]
      [] v = "host_fail" -> [r EXCEPT !.host_ok = FALSE]
      [] v = "all_faults" ->
            [r EXCEPT !.is_signer = FALSE, !.wallet_writable = FALSE,
                      !.new_title_writable = FALSE, !.liege_writable = FALSE,
                      !.wallet_owner = ProgramId, !.system_acct = Foreign,
                      !.rank = 9, !.kind = 0,
                      !.house_acct = HouseOf(OtherWallet(r.wallet)),
                      !.new_title_acct =
                          get_title_address(r.liege_acct, r.liege_vassal_index + 1)]
      [] OTHER -> r

LiegeAccts ==
    {Zero, Foreign, HouseOf(Wallet1), RootAddress, get_title_address(RootAddress, 0)}

\* vassal indices tried against a liege account: its count and the neighbours
IdxChoices(lay, L, liege) ==
    LET d == TitleData_deserialize(lay, L, liege) IN
    IF d.ok
    THEN LET k == Len(d.td.vassal_addresses) IN {k, k + 1} \cup (IF k > 0 THEN {k - 1} ELSE {})
    ELSE IF liege = Zero THEN {0, 1} ELSE {0}

\* liege accounts also passed with the all-zero liege_address argument and rank 1
MismatchLieges == {Foreign, RootAddress}

\* requests against one liege account and index
RequestsFor(liege, idx) ==
    {TitleDeviate(TitleRequest(w, liege, rank, idx), v) :
          w \in Wallets, rank \in Ranks, v \in CoreVariants}
    \cup
    {TitleDeviate(TitleRequest(w, liege, 1, idx), "arg_zero") :
          w \in IF liege \in MismatchLieges THEN Wallets ELSE {}}
    \cup
    {TitleDeviate(TitleRequest(Wallet1, liege, IF liege = Zero THEN 1 ELSE 2, idx), v) :
          v \in ShallowVariants}

TitleRequests(lay, L) ==
    UNION {UNION {RequestsFor(liege, idx) : idx \in IdxChoices(lay, L, liege)} :
           liege \in LiegeAccts}

-----------------------------------------------------------------------------
(* State machine *)

Idle == [phase |-> "idle"]

\* number of vassal entries the buffer at `a` records
FanOf(L, a) ==
    CASE L[a].data.type = "Title" -> Len(L[a].data.vassal_addresses)
      [] L[a].data.type = "Truncated" -> L[a].data.count
      [] OTHER -> 0

\* `room` holds the bounds of the run: accounts allocated, vassals of the root
WithinBounds(L, rm) ==
    /\ Cardinality(DOMAIN L) <= rm.accounts
    /\ \A a \in DOMAIN L :
          FanOf(L, a) <= (IF a = RootAddress THEN rm.root_fan ELSE MaxFan)

Init ==
    /\ ledger = <<>>
    /\ layout \in Layouts
    /\ room = [accounts |-> MaxAccounts, root_fan |-> MaxFan]
    /\ tx = Idle

\* a client submits a transaction with one instruction
Submit ==
    /\ tx.phase = "idle"
    /\ \E ins \in HouseRequests \cup TitleRequests(layout, ledger) :
          tx' = [phase |-> "submitted", ins |-> ins]
    /\ UNCHANGED <<ledger, layout, room>>

Done(ins, r) == [phase |-> "done", ins |-> ins, check |-> r.check, err |-> r.err]

CreateHouse ==
    /\ tx.phase = "submitted"
    /\ tx.ins.op = "CreateHouse"
    /\ LET r == process_create_house_account(layout, ledger, tx.ins) IN
        /\ WithinBounds(r.ledger, room)
        /\ ledger' = r.ledger
        /\ tx' = Done(tx.ins, r)
    /\ UNCHANGED <<layout, room>>

CreateTitle ==
    /\ tx.phase = "submitted"
    /\ tx.ins.op = "CreateTitle"
    /\ LET r == process_create_title_account(layout, ledger, tx.ins) IN
        /\ WithinBounds(r.ledger, room)
        /\ ledger' = r.ledger
        /\ tx' = Done(tx.ins, r)
    /\ UNCHANGED <<layout, room>>

\* the caller has the result; the host takes the next transaction
Return ==
    /\ tx.phase = "done"
    /\ tx' = Idle
    /\ UNCHANGED <<ledger, layout, room>>

Next == Submit \/ CreateHouse \/ CreateTitle \/ Return

Spec == Init /\ [][Next]_vars

-----------------------------------------------------------------------------
(* The fan-out of one liege: Wallet1 creates its House, the root title and  *)
(* then vassals of the root, one after the other; Wallet2 tries too.        *)

RootTexts == {<<EmptyText, OneText>>, <<FullText, FullText>>}

FanoutRequests(lay, L) ==
    {HouseRequest(Wallet1, <<EmptyText, OneText>>)}
    \cup {[TitleRequest(Wallet1, Zero, 1, 0) EXCEPT
              !.coat_of_arms = t[1], !.display_name = t[2]] : t \in RootTexts}
    \cup {TitleRequest(w, RootAddress, 2, idx) :
              w \in Wallets, idx \in IdxChoices(lay, L, RootAddress)}

InitFanout ==
    /\ ledger = <<>>
    /\ layout \in Layouts
    /\ room = [accounts |-> MaxRootFan + 2, root_fan |-> MaxRootFan]
    /\ tx = Idle

SubmitFanout ==
    /\ tx.phase = "idle"
    /\ \E ins \in FanoutRequests(layout, ledger) :
          tx' = [phase |-> "submitted", ins |-> ins]
    /\ UNCHANGED <<ledger, layout, room>>

NextFanout == SubmitFanout \/ CreateHouse \/ CreateTitle \/ Return

SpecFanout == InitFanout /\ [][NextFanout]_vars

-----------------------------------------------------------------------------
(* The atomic host: a transaction whose instruction returns an error is     *)
(* rolled back, the accounts keep the bytes they had before it; a           *)
(* transaction whose instruction returns Ok(()) commits all its writes.     *)

\* the ledger after the processor returned r for an instruction run on L
Commit(L, r) == IF r.check = "ok" THEN r.ledger ELSE L

CreateHouseAtomic ==
    /\ tx.phase = "submitted"
    /\ tx.ins.op = "CreateHouse"
    /\ LET r == process_create_house_account(layout, ledger, tx.ins) IN
        /\ WithinBounds(Commit(ledger, r), room)
        /\ ledger' = Commit(ledger, r)
        /\ tx' = Done(tx.ins, r)
    /\ UNCHANGED <<layout, room>>

CreateTitleAtomic ==
    /\ tx.phase = "submitted"
    /\ tx.ins.op = "CreateTitle"
    /\ LET r == process_create_title_account(layout, ledger, tx.ins) IN
        /\ WithinBounds(Commit(ledger, r), room)
        /\ ledger' = Commit(ledger, r)
        /\ tx' = Done(tx.ins, r)
    /\ UNCHANGED <<layout, room>>

NextAtomic == Submit \/ CreateHouseAtomic \/ CreateTitleAtomic \/ Return

SpecAtomic == Init /\ [][NextAtomic]_vars

-----------------------------------------------------------------------------
(* The Borsh encoding of the records of state.rs, byte by byte.  In this     *)
(* section a Pubkey is its 32 bytes, an integer field is a number, and a     *)
(* text is a String (u32 length, then the bytes) or, under the fixed layout, *)
(* an array of 128 bytes.                                                    *)

\* i32: two's complement, little-endian
I32Bytes(n) ==
    IF n >= 0 THEN LEBytes(n, 4)
    ELSE LET m == LEBytes(-n - 1, 4) IN [i \in 1..4 |-> 255 - m[i]]

I32Value(buf, off) ==
    IF buf[off + 4] < 128 THEN LEValue(buf, off, 4)
    ELSE -LEValue([i \in 1..4 |-> 255 - buf[off + i]], 0, 4) - 1

StringBytes_ByteLength(t) == <<Len(t)>> \o t

StringBytes(t) == LEBytes(Len(t), 4) \o t

TextBytes(lay, t) == IF lay = "fixed" THEN t ELSE StringBytes(t)

\* Vec<Pubkey>: u32 length, then the keys one after the other
VecPubkeyBytes(v) ==
    LEBytes(Len(v), 4)
      \o [i \in 1..(ADDRESS_WIDTH * Len(v)) |->
             v[((i - 1) \div ADDRESS_WIDTH) + 1][((i - 1) % ADDRESS_WIDTH) + 1]]

HouseData_try_to_vec(lay, h) ==
    LEBytes(h.version, 2) \o LEBytes(h.governance_token_supply, 2)
      \o TextBytes(lay, h.coat_of_arms) \o TextBytes(lay, h.display_name)
      \o I32Bytes(h.prestige) \o I32Bytes(h.virtue)

TitleData_try_to_vec(lay, td) ==
    <<td.version, td.lifecycle_state, td.rank, td.kind>>
      \o LEBytes(td.required_stake_lamports, 8) \o LEBytes(td.sale_price_lamports, 8)
      \o TextBytes(lay, td.coat_of_arms) \o TextBytes(lay, td.display_name)
      \o td.holder_house_address \o td.stake_address \o td.liege_address
      \o <<td.liege_vassal_index>>
      \o VecPubkeyBytes(td.vassal_addresses)

\* reads one text field of buf after the first `off` bytes
ReadText(lay, buf, off) ==
    IF lay = "fixed"
    THEN IF off + TEXT_WIDTH > Len(buf) THEN DeserializeError
         ELSE [ok |-> TRUE, text |-> SubSeq(buf, off + 1, off + TEXT_WIDTH),
               next |-> off + TEXT_WIDTH]
    ELSE IF off + 4 > Len(buf) \/ U32Huge(buf, off) THEN DeserializeError
         ELSE LET len == LEValue(buf, off, 4) IN
              IF off + 4 + len > Len(buf) THEN DeserializeError
              ELSE [ok |-> TRUE, text |-> SubSeq(buf, off + 5, off + 4 + len),
                    next |-> off + 4 + len]

\* try_from_slice: the record is read and no byte may be left over
HouseData_try_from_slice(lay, buf) ==
    IF Len(buf) < 4 THEN DeserializeError ELSE
    LET t1 == ReadText(lay, buf, 4) IN
    IF ~t1.ok THEN DeserializeError ELSE
    LET t2 == ReadText(lay, buf, t1.next) IN
    IF ~t2.ok THEN DeserializeError ELSE
    IF t2.next + 8 # Len(buf) THEN DeserializeError ELSE
    [ok |-> TRUE,
     rec |-> [type |-> "House",
              version |-> LEValue(buf, 0, 2),
              governance_token_supply |-> LEValue(buf, 2, 2),
              coat_of_arms |-> t1.text,
              display_name |-> t2.text,
              prestige |-> I32Value(buf, t2.next),
              virtue |-> I32Value(buf, t2.next + 4)]]

TitleData_try_from_slice(lay, buf) ==
    IF Len(buf) < 20 THEN DeserializeError ELSE
    LET t1 == ReadText(lay, buf, 20) IN
    IF ~t1.ok THEN DeserializeError ELSE
    LET t2 == ReadText(lay, buf, t1.next) IN
    IF ~t2.ok THEN DeserializeError ELSE
    LET p == t2.next IN
    IF p + 101 > Len(buf) \/ U32Huge(buf, p + 97) THEN DeserializeError ELSE
    LET cnt == LEValue(buf, p + 97, 4) IN
    IF p + 101 + ADDRESS_WIDTH * cnt # Len(buf) THEN DeserializeError ELSE
    [ok |-> TRUE,
     rec |-> [type |-> "Title",
              version |-> buf[1],
              lifecycle_state |-> buf[2],
              rank |-> buf[3],
              kind |-> buf[4],
              required_stake_lamports |-> LEValue(buf, 4, 8),
              sale_price_lamports |-> LEValue(buf, 12, 8),
              coat_of_arms |-> t1.text,
              display_name |-> t2.text,
              holder_house_address |-> SubSeq(buf, p + 1, p + 32),
              stake_address |-> SubSeq(buf, p + 33, p + 64),
              liege_address |-> SubSeq(buf, p + 65, p + 96),
              liege_vassal_index |-> buf[p + 97],
              vassal_addresses |->
                  [i \in 1..cnt |->
                      SubSeq(buf, p + 102 + ADDRESS_WIDTH * (i - 1),
                             p + 101 + ADDRESS_WIDTH * i)]]]

try_to_vec(lay, rec) ==
    IF rec.type = "House" THEN HouseData_try_to_vec(lay, rec)
    ELSE TitleData_try_to_vec(lay, rec)

try_from_slice(lay, type, buf) ==
    IF type = "House" THEN HouseData_try_from_slice(lay, buf)
    ELSE TitleData_try_from_slice(lay, buf)

\* the records encoded: texts of 0, 1 and 128 bytes, 0, 1 and 64 vassals
CodecTexts(lay) ==
    IF lay = "fixed"
    THEN {Fill(TEXT_WIDTH, 0), OneText \o Fill(TEXT_WIDTH - 1, 0), FullText}
    ELSE {EmptyText, OneText, FullText}

KeyZero == Fill(ADDRESS_WIDTH, 0)
KeyA == [j \in 1..ADDRESS_WIDTH |-> j]
KeyB == Fill(ADDRESS_WIDTH, 255)
KeyOf(i) == [j \in 1..ADDRESS_WIDTH |-> IF j = 1 THEN i ELSE 9]

CodecHouses(lay) ==
    [type : {"House"}, version : {HouseData_CURRENT_VERSION},
     governance_token_supply : {1, 258},
     coat_of_arms : CodecTexts(lay), display_name : CodecTexts(lay),
     prestige : {0, 10000, -1}, virtue : {0, -70000}]

CodecTitles(lay) ==
    [type : {"Title"}, version : {TitleData_CURRENT_VERSION},
     lifecycle_state : {INACTIVE_STATE}, rank : {1, 8}, kind : {ValidKind},
     required_stake_lamports : {0, 1000}, sale_price_lamports : {1000},
     coat_of_arms : CodecTexts(lay), display_name : CodecTexts(lay),
     holder_house_address : {KeyA}, stake_address : {KeyZero},
     liege_address : {KeyZero, KeyB}, liege_vassal_index : {0, MAX_VASSALS - 1},
     vassal_addresses : {<<>>, <<KeyA>>, [i \in 1..MAX_VASSALS |-> KeyOf(i)]}]

CodecRecords(lay) == CodecHouses(lay) \cup CodecTitles(lay)

InitCodec ==
    /\ ledger = <<>>
    /\ layout \in Layouts
    /\ room = [accounts |-> 0, root_fan |-> 0]
    /\ tx = Idle

\* a record is serialized
Encode ==
    /\ tx.phase = "idle"
    /\ \E rec \in CodecRecords(layout) :
          tx' = [phase |-> "encoded", rec |-> rec, bytes |-> try_to_vec(layout, rec)]
    /\ UNCHANGED <<ledger, layout, room>>

\* the bytes are read back
Decode ==
    /\ tx.phase = "encoded"
    /\ tx' = [phase |-> "decoded", rec |-> tx.rec, bytes |-> tx.bytes,
              out |-> try_from_slice(layout, tx.rec.type, tx.bytes)]
    /\ UNCHANGED <<ledger, layout, room>>

Forget ==
    /\ tx.phase = "decoded"
    /\ tx' = Idle
    /\ UNCHANGED <<ledger, layout, room>>

NextCodec == Encode \/ Decode \/ Forget

SpecCodec == InitCodec /\ [][NextCodec]_vars

-----------------------------------------------------------------------------
(* Vocabulary of the properties *)

TitleAt(a) == ledger[a].data

\* the processor has just run the transaction in flight
Processed(op) == tx.phase = "done" /\ tx.ins.op = op
\* this step is the processor's run of the transaction in flight
Processing(op) == tx.phase = "submitted" /\ tx.ins.op = op /\ tx'.phase = "done"

\* a CreateTitle request as an honest client builds it: every account flagged and
\* derived as the instruction documents, argument and liege account agreeing
WellFormedTitle(r) ==
    /\ r.is_signer /\ r.wallet_writable /\ r.new_title_writable /\ r.liege_writable
    /\ r.wallet_owner = SystemProgramId /\ r.system_acct = SystemProgramId
    /\ r.rank \in 1..8 /\ r.kind \in 1..2
    /\ r.house_acct = get_house_address(r.wallet)
    /\ r.liege_address = r.liege_acct
    /\ (r.rank = 1 <=> r.liege_address = Zero)
    /\ r.new_title_acct = get_title_address(r.liege_acct, r.liege_vassal_index)

WellFormedHouse(r) ==
    /\ r.is_signer /\ r.wallet_writable /\ r.house_writable
    /\ r.wallet_owner = SystemProgramId /\ r.system_acct = SystemProgramId
    /\ r.house_acct = get_house_address(r.wallet)

\* the liege account of r holds a Title that r's wallet holds and that outranks r
LiegeAccepts(L, r) ==
    /\ IsTitle(L, r.liege_acct)
    /\ L[r.liege_acct].data.holder_house_address = get_house_address(r.wallet)
    /\ L[r.liege_acct].data.rank < r.rank

-----------------------------------------------------------------------------
(* C1 - C3, C6: invariants of the stored hierarchy *)

\* C1: every stored Title has rank 1 exactly if its stored liege_address is the
\* all-zero address.
C1_RankOneIffNoLiege ==
    \A a \in TitleAddrs(ledger) :
        TitleAt(a).rank = 1 <=> TitleAt(a).liege_address = Zero

\* C2: at most one Title of rank 1 is stored.
C2_UniqueRoot ==
    \A a, b \in TitleAddrs(ledger) :
        TitleAt(a).rank = 1 /\ TitleAt(b).rank = 1 => a = b

\* C3: a stored Title with a non-zero liege_address has a Title stored at that
\* address, and its rank is greater than the rank of that Title.
C3_RankAboveLiege ==
    \A a \in TitleAddrs(ledger) :
        TitleAt(a).liege_address # Zero =>
            /\ IsTitle(ledger, TitleAt(a).liege_address)
            /\ TitleAt(a).rank > TitleAt(TitleAt(a).liege_address).rank

\* C6: the vassal list of every stored Title has at most MAX_VASSALS entries.
C6_FanOutCap ==
    \A a \in TitleAddrs(ledger) : Len(TitleAt(a).vassal_addresses) <= MAX_VASSALS

-----------------------------------------------------------------------------
(* C4: the authority check *)

\* the liege account of r holds a Title held by another House than r's wallet's
HeldByOther(L, r) ==
    /\ IsTitle(L, r.liege_acct)
    /\ L[r.liege_acct].data.holder_house_address # get_house_address(r.wallet)

\* C4: a CreateTitle of rank > 1 under a liege Title held by another House than
\* the caller's is rejected and changes no account; a well-formed one is rejected
\* with IncorrectAuthority. A step changes a stored Title only on behalf of the
\* signer whose House holds it.
C4_AuthorityCheck ==
    [][ /\ (Processing("CreateTitle") /\ tx.ins.rank > 1 /\ HeldByOther(ledger, tx.ins))
           => /\ tx'.check # "ok"
              /\ ledger' = ledger
              /\ WellFormedTitle(tx.ins)
                    => tx'.check = "authority" /\ tx'.err = IncorrectAuthority
        /\ \A a \in TitleAddrs(ledger) :
              ledger'[a] # ledger[a]
                 => /\ Processing("CreateTitle")
                    /\ tx.ins.is_signer
                    /\ TitleAt(a).holder_house_address = get_house_address(tx.ins.wallet)
      ]_vars

\* a request that only the holder check stops: well-formed, next free index,
\* rank above the liege's, made by a wallet whose House does not hold the liege
C4_Witness ==
    /\ Processed("CreateTitle")
    /\ tx.check = "authority"
    /\ WellFormedTitle(tx.ins)
    /\ tx.ins.host_ok
    /\ HeldByOther(ledger, tx.ins)
    /\ Len(TitleAt(tx.ins.liege_acct).vassal_addresses) = tx.ins.liege_vassal_index
    /\ TitleAt(tx.ins.liege_acct).rank < tx.ins.rank

-----------------------------------------------------------------------------
(* C5: the vassal index *)

\* C5: a well-formed CreateTitle by the holder of a liege with k < MAX_VASSALS
\* vassals, of a rank above the liege's and with the host ready to allocate, is
\* rejected with InvalidArgument if liege_vassal_index # k, and otherwise
\* succeeds and leaves the liege with k + 1 vassals.
C5_VassalIndex ==
    [][ (/\ Processing("CreateTitle")
         /\ tx.ins.rank > 1
         /\ WellFormedTitle(tx.ins)
         /\ tx.ins.host_ok
         /\ LiegeAccepts(ledger, tx.ins)
         /\ Len(TitleAt(tx.ins.liege_acct).vassal_addresses) < MAX_VASSALS)
        => IF tx.ins.liege_vassal_index # Len(TitleAt(tx.ins.liege_acct).vassal_addresses)
           THEN tx'.check # "ok" /\ tx'.err = "InvalidArgument"
           ELSE /\ tx'.check = "ok"
                /\ IsTitle(ledger', tx.ins.liege_acct)
                /\ Len(ledger'[tx.ins.liege_acct].data.vassal_addresses)
                      = Len(TitleAt(tx.ins.liege_acct).vassal_addresses) + 1
      ]_vars

-----------------------------------------------------------------------------
(* C7: two CreateTitle for the same vassal slot *)

\* r is the second of two requests for one slot: the slot's address holds the
\* Title the first one created, and r passes every check the first one's
\* success has no part in
SlotRaceLoser(L, r) ==
    /\ WellFormedTitle(r)
    /\ r.host_ok
    /\ IsTitle(L, r.new_title_acct)
    /\ r.rank > 1 => LiegeAccepts(L, r)

\* C7 as claimed: the second request for a slot is rejected by the allocation.
C7_LoserFailsAtAllocation ==
    [][ (Processing("CreateTitle") /\ SlotRaceLoser(ledger, tx.ins))
        => tx'.check = "allocate" ]_vars

\* C7 as amended: the second request for a slot never succeeds; it is rejected by
\* the vassal-index check with InvalidArgument when the liege's vassal count
\* differs from liege_vassal_index, and by the allocation (account already in
\* use) when it does not or the slot is one of rank 1.
C7_LoserRejected ==
    [][ (Processing("CreateTitle") /\ SlotRaceLoser(ledger, tx.ins))
        => IF /\ tx.ins.rank > 1
              /\ Len(TitleAt(tx.ins.liege_acct).vassal_addresses)
                    # tx.ins.liege_vassal_index
           THEN tx'.check = "vassal_index" /\ tx'.err = "InvalidArgument"
                /\ ledger' = ledger
           ELSE tx'.check = "allocate" /\ tx'.err = AccountAlreadyInUse
      ]_vars

\* the loser of a race for a slot under a liege, stopped by the index check:
\* the winner is a vassal the liege lists at that index
C7_Witness ==
    /\ Processed("CreateTitle")
    /\ SlotRaceLoser(ledger, tx.ins)
    /\ tx.ins.rank > 1
    /\ tx.check = "vassal_index"
    /\ Len(TitleAt(tx.ins.liege_acct).vassal_addresses) > tx.ins.liege_vassal_index
    /\ TitleAt(tx.ins.liege_acct).vassal_addresses[tx.ins.liege_vassal_index + 1]
          = tx.ins.new_title_acct

-----------------------------------------------------------------------------
(* C8: one House per wallet *)

\* C8: a CreateHouse succeeds only where no account exists at the House address
\* of the signing wallet, and creates the account there; accounts are never
\* removed; once the account exists every CreateHouse of that wallet fails and
\* changes nothing, a well-formed one at the allocation (account already in use).
C8_HouseOnce ==
    [][ /\ DOMAIN ledger \subseteq DOMAIN ledger'
        /\ Processing("CreateHouse")
              => /\ tx'.check = "ok"
                    => /\ tx.ins.is_signer
                       /\ get_house_address(tx.ins.wallet) \notin DOMAIN ledger
                       /\ IsHouse(ledger', get_house_address(tx.ins.wallet))
                 /\ get_house_address(tx.ins.wallet) \in DOMAIN ledger
                    => /\ tx'.check # "ok"
                       /\ ledger' = ledger
                       /\ WellFormedHouse(tx.ins)
                             => tx'.check = "allocate" /\ tx'.err = AccountAlreadyInUse
      ]_vars

\* a well-formed second CreateHouse of a wallet, refused by the allocation
C8_Witness ==
    /\ Processed("CreateHouse")
    /\ WellFormedHouse(tx.ins)
    /\ tx.ins.host_ok
    /\ IsHouse(ledger, get_house_address(tx.ins.wallet))
    /\ tx.check = "allocate"

-----------------------------------------------------------------------------
(* C9, C10: what a rejected instruction leaves behind *)

\* the checks of CreateTitle that the claim lists, as conditions on the request
PassesTitleValidation(lay, L, r) ==
    /\ r.is_signer
    /\ r.wallet_writable /\ r.new_title_writable
    /\ r.liege_writable \/ r.liege_address = Zero
    /\ r.wallet_owner = SystemProgramId
    /\ r.rank \in 1..8 /\ r.kind \in 1..2
    /\ r.rank = 1 <=> r.liege_address = Zero
    /\ r.house_acct = get_house_address(r.wallet)
    /\ r.new_title_acct = get_title_address(r.liege_acct, r.liege_vassal_index)
    /\ r.rank > 1 =>
          LET d == TitleData_deserialize(lay, L, r.liege_acct) IN
          /\ d.ok
          /\ d.td.holder_house_address = r.house_acct
          /\ Len(d.td.vassal_addresses) = r.liege_vassal_index
          /\ d.td.rank < r.rank

PassesHouseValidation(r) ==
    /\ r.is_signer
    /\ r.wallet_writable /\ r.house_writable
    /\ r.wallet_owner = SystemProgramId
    /\ r.house_acct = get_house_address(r.wallet)

ValidationChecks ==
    {"signer", "writable", "system_program", "rank", "kind", "rank_liege",
     "house_seeds", "title_seeds", "deserialize", "authority", "vassal_index",
     "rank_order"}

\* C9: an instruction that fails one of the validation checks changes no account.
C9_RejectedLeavesNoTrace ==
    [][ /\ (Processing("CreateTitle") /\ ~PassesTitleValidation(layout, ledger, tx.ins))
           => tx'.check \in ValidationChecks /\ ledger' = ledger
        /\ (Processing("CreateHouse") /\ ~PassesHouseValidation(tx.ins))
           => tx'.check \in ValidationChecks /\ ledger' = ledger
        /\ (tx'.phase = "done" /\ tx'.check \in ValidationChecks) => ledger' = ledger
      ]_vars

\* the last check before the liege is written has rejected a request
C9_Witness ==
    /\ Processed("CreateTitle")
    /\ tx.check = "rank_order"
    /\ IsTitle(ledger, tx.ins.liege_acct)
    /\ TitleAt(tx.ins.liege_acct).holder_house_address = tx.ins.house_acct
    /\ Len(TitleAt(tx.ins.liege_acct).vassal_addresses) = tx.ins.liege_vassal_index

\* C10: when a CreateTitle of rank > 1 passes every validation check and the
\* allocation of the new account fails, the liege is left with the new address
\* appended to its vassal list and no Title is stored at that address.
C10_DanglingVassal ==
    [][ (/\ Processing("CreateTitle")
         /\ tx.ins.rank > 1
         /\ PassesTitleValidation(layout, ledger, tx.ins)
         /\ tx'.check = "allocate")
        => /\ IsTitle(ledger', tx.ins.liege_acct)
           /\ ledger'[tx.ins.liege_acct].data.vassal_addresses
                 = Append(TitleAt(tx.ins.liege_acct).vassal_addresses,
                          tx.ins.new_title_acct)
           /\ ~IsTitle(ledger', tx.ins.new_title_acct)
      ]_vars

-----------------------------------------------------------------------------
(* C11: rank 1 and the zero liege *)

\* the signer, writability and wallet-owner checks (lines 155-165) pass
PassesAccountChecks(r) ==
    /\ r.is_signer
    /\ r.wallet_writable /\ r.new_title_writable
    /\ r.liege_writable \/ r.liege_address = Zero
    /\ r.wallet_owner = SystemProgramId

\* a rank-1 request whose other arguments are valid and whose target is free;
\* nothing is asked of the liege account
RootRequestValid(L, r) ==
    /\ r.is_signer /\ r.wallet_writable /\ r.new_title_writable
    /\ r.wallet_owner = SystemProgramId /\ r.system_acct = SystemProgramId
    /\ r.kind \in 1..2
    /\ r.house_acct = get_house_address(r.wallet)
    /\ r.new_title_acct = get_title_address(r.liege_acct, r.liege_vassal_index)
    /\ r.new_title_acct \notin DOMAIN L
    /\ r.host_ok

\* C11: a CreateTitle with rank 1 and a non-zero liege_address, or with rank > 1
\* and the all-zero liege_address, is rejected and changes nothing, with
\* InvalidArgument once the account checks pass; with rank 1 and the all-zero
\* liege_address, other arguments valid and the target free, it succeeds and
\* leaves every existing account as it was, whatever the liege account is.
C11_RankLiegeConsistency ==
    [][ Processing("CreateTitle") =>
          /\ (\/ tx.ins.rank = 1 /\ tx.ins.liege_address # Zero
              \/ tx.ins.rank > 1 /\ tx.ins.liege_address = Zero)
                => /\ tx'.check # "ok"
                   /\ ledger' = ledger
                   /\ PassesAccountChecks(tx.ins) => tx'.err = "InvalidArgument"
          /\ (/\ tx.ins.rank = 1 /\ tx.ins.liege_address = Zero
              /\ RootRequestValid(ledger, tx.ins))
                => /\ tx'.check = "ok"
                   /\ IsTitle(ledger', tx.ins.new_title_acct)
                   /\ \A a \in DOMAIN ledger : ledger'[a] = ledger[a]
      ]_vars

\* a rank-1 Title created with a liege account that is empty and not writable
C11_Witness ==
    /\ Processed("CreateTitle")
    /\ tx.check = "ok"
    /\ tx.ins.rank = 1 /\ tx.ins.liege_address = Zero
    /\ ~tx.ins.liege_writable
    /\ tx.ins.liege_acct \notin DOMAIN ledger
    /\ IsTitle(ledger, tx.ins.new_title_acct)

-----------------------------------------------------------------------------
(* C12 - C14: address derivation *)

\* every check before the Title address comparison (lines 155-191) passes
PassesUpToHouseSeeds(r) ==
    /\ PassesAccountChecks(r)
    /\ r.rank \in 1..8 /\ r.kind \in 1..2
    /\ r.rank = 1 <=> r.liege_address = Zero
    /\ r.house_acct = get_house_address(r.wallet)

\* C12: a CreateTitle succeeds only if the new-title account is the address
\* derived from the liege_address argument and liege_vassal_index; with any
\* other new-title account it is rejected with InvalidSeeds.
C12_TitleAddressFromArgument ==
    [][ Processing("CreateTitle") =>
          /\ tx'.check = "ok"
                => tx.ins.new_title_acct
                      = get_title_address(tx.ins.liege_address, tx.ins.liege_vassal_index)
          /\ (/\ PassesUpToHouseSeeds(tx.ins)
              /\ tx.ins.new_title_acct
                    # get_title_address(tx.ins.liege_address, tx.ins.liege_vassal_index))
                => tx'.check = "title_seeds" /\ tx'.err = "InvalidSeeds"
      ]_vars

\* C13: a CreateHouse or CreateTitle whose House account is not the address
\* derived from the signing wallet never succeeds and changes no account, and is
\* rejected with InvalidSeeds once the checks before the derivation pass; so a
\* House is only created at, and a Title only ever held by, the House address
\* of the wallet that signed.
C13_HouseAddressFromSigner ==
    [][ /\ (Processing("CreateHouse")
               /\ tx.ins.house_acct # get_house_address(tx.ins.wallet))
           => /\ tx'.check # "ok"
              /\ ledger' = ledger
              /\ PassesHouseValidation([tx.ins EXCEPT
                                           !.house_acct = get_house_address(tx.ins.wallet)])
                    => tx'.check = "house_seeds" /\ tx'.err = "InvalidSeeds"
        /\ (Processing("CreateTitle")
               /\ tx.ins.house_acct # get_house_address(tx.ins.wallet))
           => /\ tx'.check # "ok"
              /\ ledger' = ledger
              /\ PassesUpToHouseSeeds([tx.ins EXCEPT
                                          !.house_acct = get_house_address(tx.ins.wallet)])
                    => tx'.check = "house_seeds" /\ tx'.err = "InvalidSeeds"
        /\ \A a \in DOMAIN ledger' \ DOMAIN ledger :
              /\ tx.phase = "submitted" /\ tx.ins.is_signer
              /\ ledger'[a].size = HouseData_SIZE
                    => a = get_house_address(tx.ins.wallet)
              /\ IsTitle(ledger', a)
                    => ledger'[a].data.holder_house_address
                          = get_house_address(tx.ins.wallet)
      ]_vars

\* a CreateTitle naming another wallet's House, stopped by the derivation check
C13_Witness ==
    /\ Processed("CreateTitle")
    /\ tx.check = "house_seeds"
    /\ tx.ins.house_acct = get_house_address(OtherWallet(tx.ins.wallet))
    /\ PassesAccountChecks(tx.ins)

\* C14: every stored Title is at the address derived from its own liege_address
\* and liege_vassal_index fields, and a House record only ever appears at the
\* address derived from the wallet that signed the CreateHouse creating it.
C14_AddressesDerived ==
    [][ /\ \A a \in TitleAddrs(ledger') :
              a = get_title_address(ledger'[a].data.liege_address,
                                    ledger'[a].data.liege_vassal_index)
        /\ \A a \in DOMAIN ledger' :
              (IsHouse(ledger', a) /\ ~IsHouse(ledger, a))
                 => /\ Processing("CreateHouse")
                    /\ tx.ins.is_signer
                    /\ a = get_house_address(tx.ins.wallet)
        /\ \A a \in DOMAIN ledger :
              IsHouse(ledger, a) => ledger'[a] = ledger[a]
      ]_vars

\* a vassal Title has just been stored under the liege that lists it
C14_Witness ==
    /\ Processed("CreateTitle")
    /\ tx.check = "ok"
    /\ tx.ins.rank > 1
    /\ IsTitle(ledger, tx.ins.new_title_acct)
    /\ TitleAt(tx.ins.new_title_acct).liege_address = tx.ins.liege_acct
    /\ IsTitle(ledger, tx.ins.liege_acct)
    /\ tx.ins.new_title_acct
          = get_title_address(tx.ins.liege_acct, tx.ins.liege_vassal_index)

-----------------------------------------------------------------------------
(* C15, C16: the records a successful instruction writes *)

\* C15: a successful CreateTitle creates, at the new-title address and owned by
\* the program, a Title with the current version, lifecycle state 1, the rank,
\* kind, texts and stake given, the sale price equal to the stake, a zero stake
\* address, the signer's House as holder, the liege account's address and the
\* given index as liege, and no vassals.
C15_NewTitleRecord ==
    [][ (Processing("CreateTitle") /\ tx'.check = "ok") =>
          /\ tx.ins.new_title_acct \notin DOMAIN ledger
          /\ tx.ins.new_title_acct \in DOMAIN ledger'
          /\ LET acct == ledger'[tx.ins.new_title_acct]
                 td == acct.data
             IN
             /\ acct.owner = ProgramId
             /\ td.type = "Title"
             /\ td.version = TitleData_CURRENT_VERSION
             /\ td.lifecycle_state = 1
             /\ td.rank = tx.ins.rank
             /\ td.kind = tx.ins.kind
             /\ td.coat_of_arms = tx.ins.coat_of_arms
             /\ td.display_name = tx.ins.display_name
             /\ td.required_stake_lamports = tx.ins.required_stake_lamports
             /\ td.sale_price_lamports = tx.ins.required_stake_lamports
             /\ td.stake_address = Zero
             /\ td.holder_house_address = get_house_address(tx.ins.wallet)
             /\ td.liege_address = tx.ins.liege_acct
             /\ td.liege_vassal_index = tx.ins.liege_vassal_index
             /\ td.vassal_addresses = <<>>
      ]_vars

\* a vassal Title has just been created with a non-zero stake
C15_Witness ==
    /\ Processed("CreateTitle")
    /\ tx.check = "ok"
    /\ tx.ins.rank > 1
    /\ tx.ins.required_stake_lamports # LEBytes(0, 8)
    /\ IsTitle(ledger, tx.ins.new_title_acct)
    /\ TitleAt(tx.ins.new_title_acct).sale_price_lamports = tx.ins.required_stake_lamports

\* C16: a successful CreateHouse creates, at the address derived from the signing
\* wallet and owned by the program, an account of HouseData::SIZE bytes holding
\* a House with the current version, governance_token_supply 1, the texts given,
\* and prestige and virtue 0.
C16_NewHouseRecord ==
    [][ (Processing("CreateHouse") /\ tx'.check = "ok") =>
          LET h == get_house_address(tx.ins.wallet) IN
          /\ tx.ins.is_signer
          /\ h \notin DOMAIN ledger
          /\ h \in DOMAIN ledger'
          /\ DOMAIN ledger' = DOMAIN ledger \cup {h}
          /\ ledger'[h].owner = ProgramId
          /\ ledger'[h].size = 2 + 2 + 128 + 128 + 4 + 4
          /\ ledger'[h].data =
                [type |-> "House",
                 version |-> HouseData_CURRENT_VERSION,
                 governance_token_supply |-> 1,
                 coat_of_arms |-> tx.ins.coat_of_arms,
                 display_name |-> tx.ins.display_name,
                 prestige |-> 0,
                 virtue |-> 0]
      ]_vars

\* a House has just been created with a display name
C16_Witness ==
    /\ Processed("CreateHouse")
    /\ tx.check = "ok"
    /\ IsHouse(ledger, get_house_address(tx.ins.wallet))
    /\ TitleAt(get_house_address(tx.ins.wallet)).display_name # EmptyText

-----------------------------------------------------------------------------
(* C17 - C20: the errors reported *)

\* C17: a CreateHouse or CreateTitle whose wallet account has not signed is
\* rejected with MissingRequiredSignature whatever else is wrong with it, and
\* changes no account.
C17_MissingSignature ==
    [][ ((Processing("CreateHouse") \/ Processing("CreateTitle")) /\ ~tx.ins.is_signer)
        => /\ tx'.check = "signer"
           /\ tx'.err = "MissingRequiredSignature"
           /\ ledger' = ledger
      ]_vars

\* an unsigned request that every later check would reject too
C17_Witness ==
    /\ Processed("CreateTitle")
    /\ ~tx.ins.is_signer
    /\ ~tx.ins.wallet_writable
    /\ tx.ins.wallet_owner # SystemProgramId
    /\ tx.ins.rank \notin 1..8
    /\ tx.ins.house_acct # get_house_address(tx.ins.wallet)
    /\ tx.err = "MissingRequiredSignature"

\* C18: a CreateHouse or CreateTitle whose system-program account is not the
\* system program never succeeds, and is rejected with IncorrectProgramId once
\* the signer and writability checks pass.
C18_AllocatorIdentity ==
    [][ ((Processing("CreateHouse") \/ Processing("CreateTitle"))
            /\ tx.ins.system_acct # SystemProgramId)
        => /\ tx'.check # "ok"
           /\ (tx'.check \notin {"signer", "writable"}) => tx'.err = "IncorrectProgramId"
      ]_vars

\* C19: a rejection for a non-writable account is reported with an error value
\* of its own, different from the InvalidArgument of a bad rank, kind, vassal
\* index or rank/liege mismatch.
C19_WritabilityError ==
    (tx.phase = "done" /\ tx.check = "writable") => tx.err # "InvalidArgument"

-----------------------------------------------------------------------------
(* C21: the lifecycle state *)

\* C21: at all times every stored Title has lifecycle_state 1 (created,
\* inactive): a Title is created in that state and the rewrite of a liege keeps
\* it; no stored Title has lifecycle_state 2.
C21_LifecycleInactive ==
    \A a \in TitleAddrs(ledger) :
        /\ TitleAt(a).lifecycle_state = INACTIVE_STATE
        /\ TitleAt(a).lifecycle_state # 2

\* a liege rewritten with a new vassal and the vassal created under it, both in
\* state 1
C21_Witness ==
    /\ Processed("CreateTitle")
    /\ tx.check = "ok"
    /\ tx.ins.rank > 1
    /\ IsTitle(ledger, tx.ins.liege_acct)
    /\ Len(TitleAt(tx.ins.liege_acct).vassal_addresses) > 0
    /\ TitleAt(tx.ins.liege_acct).lifecycle_state = 1
    /\ IsTitle(ledger, tx.ins.new_title_acct)
    /\ TitleAt(tx.ins.new_title_acct).lifecycle_state = 1

-----------------------------------------------------------------------------
(* C22: what an instruction may change *)

-----------------------------------------------------------------------------
(* C23, C24: the encoding of the records *)

\* C23: a House or Title record with texts of up to 128 bytes and 0 to 64
\* vassals, serialized and then deserialized, is read back as the same record.
C23_RoundTrip ==
    tx.phase = "decoded" => tx.out.ok /\ tx.out.rec = tx.rec

\* a Title with full texts and 64 vassals has been read back
C23_Witness ==
    /\ tx.phase = "decoded"
    /\ tx.rec.type = "Title"
    /\ Len(tx.rec.vassal_addresses) = MAX_VASSALS
    /\ \/ layout = "fixed"
       \/ Len(tx.rec.coat_of_arms) = TEXT_WIDTH
    /\ tx.out.ok
    /\ tx.out.rec.vassal_addresses[MAX_VASSALS] = KeyOf(MAX_VASSALS)

\* C24: the serialization of a House takes HouseData::SIZE bytes and that of a
\* Title TitleData::SIZE bytes, whatever the lengths of the texts and the
\* number of vassals.
C24_SerializedLenIsSize ==
    tx.phase = "encoded" =>
        Len(tx.bytes) = (IF tx.rec.type = "House" THEN HouseData_SIZE ELSE TitleData_SIZE)

-----------------------------------------------------------------------------
(* C25: the size of a Title account *)

\* C25: every account holding a Title is allocated with TitleData::SIZE bytes,
\* and no write of a Title record with at most MAX_VASSALS vassals runs out of
\* space: a CreateTitle stopped by the serialization has pushed the liege's
\* vassal list beyond MAX_VASSALS entries.
C25_TitleRecordFits ==
    /\ \A a \in DOMAIN ledger :
          ledger[a].data.type \in {"Title", "Truncated"} => ledger[a].size = TitleData_SIZE
    /\ (Processed("CreateTitle") /\ tx.check = "serialize")
          => /\ tx.ins.rank > 1
             /\ FanOf(ledger, tx.ins.liege_acct) > MAX_VASSALS

-----------------------------------------------------------------------------
(* C27: the vassal list is append-only *)

-----------------------------------------------------------------------------
(* C28: the liege relation is a forest of bounded depth *)

RECURSIVE ReachesRoot(_, _, _)
\* following liege_address from the Title at `a` arrives at the all-zero address
\* after at most `hops` hops, each of them landing on a stored Title
ReachesRoot(L, a, hops) ==
    LET liege == L[a].data.liege_address IN
    IF liege = Zero THEN TRUE
    ELSE hops > 0 /\ IsTitle(L, liege) /\ ReachesRoot(L, liege, hops - 1)

\* C28: from every stored Title the chain of liege_address fields reaches the
\* all-zero address after at most 7 hops, every hop landing on a stored Title;
\* so no chain comes back to a Title it has left.
C28_BoundedForest ==
    \A a \in TitleAddrs(ledger) : ReachesRoot(ledger, a, 7)

-----------------------------------------------------------------------------
(* C29: the order of the checks of CreateTitle *)

CheckOrder ==
    <<"signer", "writable", "system_program", "rank", "kind", "rank_liege",
      "house_seeds", "title_seeds", "deserialize", "authority", "vassal_index",
      "rank_order">>

\* request r violates the check named c, each check taken as the instruction
\* documents it: the allocator is the system-program account, the new Title
\* address is derived from the liege_address argument
Violates(lay, L, r, c) ==
    LET d == TitleData_deserialize(lay, L, r.liege_acct) IN
    CASE c = "signer" -> ~r.is_signer
      [] c = "writable" ->
            \/ ~r.wallet_writable \/ ~r.new_title_writable
            \/ (~r.liege_writable /\ r.liege_address # Zero)
      [] c = "system_program" -> r.system_acct # SystemProgramId
      [] c = "rank" -> r.rank \notin 1..8
      [] c = "kind" -> r.kind \notin 1..2
      [] c = "rank_liege" -> ~(r.rank = 1 <=> r.liege_address = Zero)
      [] c = "house_seeds" -> r.house_acct # get_house_address(r.wallet)
      [] c = "title_seeds" ->
            r.new_title_acct # get_title_address(r.liege_address, r.liege_vassal_index)
      [] c = "deserialize" -> r.rank > 1 /\ ~d.ok
      [] c = "authority" ->
            r.rank > 1 /\ d.ok /\ d.td.holder_house_address # r.house_acct
      [] c = "vassal_index" ->
            r.rank > 1 /\ d.ok /\ Len(d.td.vassal_addresses) # r.liege_vassal_index
      [] c = "rank_order" -> r.rank > 1 /\ d.ok /\ d.td.rank >= r.rank

\* the earliest check of the order that r violates
FirstViolated(lay, L, r) ==
    LET bad == {i \in DOMAIN CheckOrder : Violates(lay, L, r, CheckOrder[i])} IN
    IF bad = {} THEN "none"
    ELSE CheckOrder[CHOOSE i \in bad : \A j \in bad : i <= j]

\* C29: a CreateTitle that violates one or more of the checks is rejected by the
\* earliest check it violates, in the order signer, writability, allocator
\* identity, rank, kind, rank/liege consistency, House derivation, new-Title
\* derivation, liege deserialization, authority, vassal index, rank order.
C29_EarliestViolationReported ==
    [][ (Processing("CreateTitle") /\ FirstViolated(layout, ledger, tx.ins) # "none")
        => tx'.check = FirstViolated(layout, ledger, tx.ins) ]_vars

-----------------------------------------------------------------------------
(* C30: a liege that does not exist *)

\* every check before the liege is read (lines 155-205) passes
PassesUpToTitleSeeds(r) ==
    /\ PassesUpToHouseSeeds(r)
    /\ r.new_title_acct = get_title_address(r.liege_acct, r.liege_vassal_index)

-----------------------------------------------------------------------------
(* C31: the entries of a vassal list *)

\* C31: in every stored Title the entry at position i of the vassal list
\* (counted from 0) is the address derived from that Title's own address and i;
\* no address occurs twice in one vassal list, nor in the lists of two Titles.
C31_VassalEntriesDerived ==
    /\ \A a \in TitleAddrs(ledger) :
          \A i \in 1..Len(TitleAt(a).vassal_addresses) :
              TitleAt(a).vassal_addresses[i] = get_title_address(a, i - 1)
    /\ \A a, b \in TitleAddrs(ledger) :
          \A i \in 1..Len(TitleAt(a).vassal_addresses) :
              \A j \in 1..Len(TitleAt(b).vassal_addresses) :
                  TitleAt(a).vassal_addresses[i] = TitleAt(b).vassal_addresses[j]
                      => a = b /\ i = j

\* a Title listing two vassals, the second at the address derived for index 1
C31_Witness ==
    \E a \in TitleAddrs(ledger) :
        /\ Len(TitleAt(a).vassal_addresses) = 2
        /\ TitleAt(a).vassal_addresses[2] = get_title_address(a, 1)
        /\ TitleAt(a).vassal_addresses[1] # TitleAt(a).vassal_addresses[2]

-----------------------------------------------------------------------------
(* C32: lieges and vassals under the atomic host *)

\* C32: when every transaction commits fully or is rolled back, every stored
\* Title of rank above 1 is listed in its liege (the account at its
\* liege_address holds a Title whose vassal list has the Title's address at
\* position liege_vassal_index), and every entry of a vassal list is the
\* address of a stored Title.
C32_ListedInLiege ==
    /\ \A a \in TitleAddrs(ledger) :
          TitleAt(a).rank > 1 =>
              LET l == TitleAt(a).liege_address
                  i == TitleAt(a).liege_vassal_index
              IN  /\ IsTitle(ledger, l)
                  /\ i + 1 <= Len(TitleAt(l).vassal_addresses)
                  /\ TitleAt(l).vassal_addresses[i + 1] = a
    /\ \A a \in TitleAddrs(ledger) :
          \A i \in 1..Len(TitleAt(a).vassal_addresses) :
              IsTitle(ledger, TitleAt(a).vassal_addresses[i])

\* a vassal has just been created and committed together with its liege's entry
C32_Witness ==
    /\ Processed("CreateTitle")
    /\ tx.check = "ok"
    /\ tx.ins.rank > 1
    /\ IsTitle(ledger, tx.ins.new_title_acct)
    /\ IsTitle(ledger, tx.ins.liege_acct)
    /\ TitleAt(tx.ins.liege_acct).vassal_addresses = <<tx.ins.new_title_acct>>

-----------------------------------------------------------------------------
(* C33: the holder of a Title *)

\* C33: the holder_house_address of every stored Title is the address of an
\* account that holds a House record.
C33_HolderIsHouse ==
    \A a \in TitleAddrs(ledger) :
        IsHouse(ledger, TitleAt(a).holder_house_address)

-----------------------------------------------------------------------------
(* C34: one holder per tree *)

RECURSIVE TreeRoot(_, _, _)
\* the Title reached from the Title at `a` by following liege_address for as
\* long as the rank is above 1 (rank 1 is the root, state.rs), at most `hops`
\* hops, stopping where the liege account holds no Title
TreeRoot(L, a, hops) ==
    LET t == L[a].data IN
    IF t.rank = 1 \/ hops = 0 \/ ~IsTitle(L, t.liege_address) THEN a
    ELSE TreeRoot(L, t.liege_address, hops - 1)

\* C34: every stored Title of rank above 1 has a stored Title at its
\* liege_address with the same holder_house_address; so from every stored Title
\* the lieges lead to a Title of rank 1 held by the same House.
C34_HolderInherited ==
    /\ \A a \in TitleAddrs(ledger) :
          TitleAt(a).rank > 1 =>
              /\ IsTitle(ledger, TitleAt(a).liege_address)
              /\ TitleAt(TitleAt(a).liege_address).holder_house_address
                    = TitleAt(a).holder_house_address
    /\ \A a \in TitleAddrs(ledger) :
          LET root == TreeRoot(ledger, a, 7) IN
              /\ TitleAt(root).rank = 1
              /\ TitleAt(root).holder_house_address = TitleAt(a).holder_house_address

\* a vassal is stored under a liege held by the same House, and the transaction
\* just processed was another wallet's attempt on that liege, refused
C34_Witness ==
    /\ Processed("CreateTitle")
    /\ tx.check = "authority"
    /\ IsTitle(ledger, tx.ins.liege_acct)
    /\ \E a \in TitleAddrs(ledger) :
          /\ TitleAt(a).rank > 1
          /\ TitleAt(a).liege_address = tx.ins.liege_acct
          /\ TitleAt(a).holder_house_address
                = TitleAt(tx.ins.liege_acct).holder_house_address
          /\ TitleAt(a).holder_house_address # tx.ins.house_acct

====
